---- MODULE Spec2Model ----
(***************************************************************************)
(* Model of segan/transforms.py: the transform pipeline (PCompose,         *)
(* SwitchCompose), the additive-noise injector (Additive) and the          *)
(* voice-activity chopper (Chopper).                                       *)
(*                                                                         *)
(* Python values are modelled as follows:                                  *)
(*   - None is the integer NoneVal (-1) where the code stores an offset;   *)
(*   - a random draw in [0,1) is k/RandRes for k in 0..RandRes-1;          *)
(*   - float samples of the noisy output are integers in 1/Unit units and  *)
(*     the accumulated de-clip divisor is the exact fraction               *)
(*     scale_den/scale_num.                                                *)
(***************************************************************************)
EXTENDS Integers, Sequences, FiniteSets, TLC

\* ---- bounds of the model ------------------------------------------------
MaxWindows == 12
ChopWindows == 5
MaxMaxChops == 3
MaxDurSteps == 2

\* ---- program constants --------------------------------------------------
window_size == 160
VadRate == 16000
NoneVal == -1

VARIABLES
    \* Chopper.vad_wav
    srate, wav_len, beg_i, init, curr_region_counter, regions, vad_frames,
    vad_pc,
    \* Chopper.chop_wav
    max_chops, chops, chop_pool, chop_idxs, chop_pos, chop_log, chop_pc,
    \* PCompose / SwitchCompose
    cmp_kind, cmp_n, probs, cmp_report, tensor, x, reports, calls, cmp_i,
    cmp_u, cmp_pc, cmp_ret,
    \* Additive
    do_IRS, x_len, noise_len, rand_start, seg_len, noisy, small, scale_num,
    scale_den, declips, add_pc, add_err,
    \* Additive.asl_P56
    asl_srate, asl_nbits, asl_len, asl_k, asl_silent, asl_q, asl_a, asl_hang,
    full_a, full_hang, asl_pc, asl_ret,
    \* Additive.bin_interp
    upcount, lwcount, upthr, lwthr, Margin, tol, iterno, midcount, midthr,
    halvings, bin_pc, bin_ret

vadVars == <<srate, wav_len, beg_i, init, curr_region_counter, regions,
             vad_frames, vad_pc>>
chopVars == <<max_chops, chops, chop_pool, chop_idxs, chop_pos, chop_log,
              chop_pc>>
cmpVars == <<cmp_kind, cmp_n, probs, cmp_report, tensor, x, reports, calls,
             cmp_i, cmp_u, cmp_pc, cmp_ret>>
addVars == <<do_IRS, x_len, noise_len, rand_start, seg_len, noisy, small,
             scale_num, scale_den, declips, add_pc, add_err>>
aslVars == <<asl_srate, asl_nbits, asl_len, asl_k, asl_silent, asl_q, asl_a,
             asl_hang, full_a, full_hang, asl_pc, asl_ret>>
binVars == <<upcount, lwcount, upthr, lwthr, Margin, tol, iterno, midcount,
             midthr, halvings, bin_pc, bin_ret>>
vars == <<vadVars, chopVars, cmpVars, addVars, aslVars, binVars>>

Min(a, b) == IF a < b THEN a ELSE b
Max(a, b) == IF a > b THEN a ELSE b

\* ========================================================================
\* Chopper.vad_wav
\* ========================================================================

\* lengths a trailing partial window can have
TailLens == {0, 1, window_size - 1}

WavLens(maxW) == {w * window_size + t : w \in 0..maxW, t \in TailLens}

\* frame = wav[beg_i:beg_i + window_size]; frame.shape[0]
FrameLen(n, b) == Min(window_size, n - b)

\* the left operand of the `and`: only a full frame reaches vad.is_speech
FrameIsClassified(flen) == flen >= window_size

\* the region tuple appended when a run closes
CloseRegion(ini, cnt) ==
    LET end_sample == ini + (cnt * window_size)
        center_sample == ini + (end_sample - ini) \div 2
    IN [begin |-> ini, center |-> center_sample, dur |-> cnt * window_size]

\* value of curr_region_counter after the else branch
CounterAfterCloseKept(cnt) == cnt
CounterAfterClose(cnt) == 0

VadInit(maxW) ==
    /\ srate \in {8000, VadRate}
    /\ wav_len \in WavLens(maxW)
    /\ beg_i = 0
    /\ init = NoneVal
    /\ curr_region_counter = 0
    /\ regions = <<>>
    /\ vad_frames = <<>>
    /\ vad_pc = "start"

\* if srate != 16000: raise ValueError
VadRaise ==
    /\ vad_pc = "start"
    /\ srate # VadRate
    /\ vad_pc' = "error"
    /\ UNCHANGED <<srate, wav_len, beg_i, init, curr_region_counter, regions,
                   vad_frames, chopVars, cmpVars, addVars, aslVars, binVars>>

VadEnter ==
    /\ vad_pc = "start"
    /\ srate = VadRate
    /\ vad_pc' = "loop"
    /\ UNCHANGED <<srate, wav_len, beg_i, init, curr_region_counter, regions,
                   vad_frames, chopVars, cmpVars, addVars, aslVars, binVars>>

\* one iteration of `for beg_i in range(0, wav.shape[0], window_size)`
\* whose frame is classified as speech
VadSpeech ==
    /\ vad_pc = "loop"
    /\ beg_i < wav_len
    /\ FrameIsClassified(FrameLen(wav_len, beg_i))
    /\ vad_frames' = Append(vad_frames,
                            [beg |-> beg_i, len |-> FrameLen(wav_len, beg_i),
                             speech |-> TRUE])
    /\ curr_region_counter' = curr_region_counter + 1
    /\ init' = IF init = NoneVal THEN beg_i ELSE init
    /\ beg_i' = beg_i + window_size
    /\ UNCHANGED <<srate, wav_len, regions, vad_pc, chopVars, cmpVars,
                   addVars, aslVars, binVars>>

\* one iteration whose frame is undersized (not classified) or classified
\* as non-speech
VadSilence ==
    /\ vad_pc = "loop"
    /\ beg_i < wav_len
    /\ vad_frames' =
         IF FrameIsClassified(FrameLen(wav_len, beg_i))
         THEN Append(vad_frames,
                     [beg |-> beg_i, len |-> FrameLen(wav_len, beg_i),
                      speech |-> FALSE])
         ELSE vad_frames
    /\ regions' = IF init # NoneVal
                  THEN Append(regions, CloseRegion(init, curr_region_counter))
                  ELSE regions
    /\ init' = NoneVal
    /\ curr_region_counter' = CounterAfterClose(curr_region_counter)
    /\ beg_i' = beg_i + window_size
    /\ UNCHANGED <<srate, wav_len, vad_pc, chopVars, cmpVars, addVars, aslVars, binVars>>

\* the loop is exhausted: return regions
VadReturn ==
    /\ vad_pc = "loop"
    /\ beg_i >= wav_len
    /\ vad_pc' = "done"
    /\ UNCHANGED <<srate, wav_len, beg_i, init, curr_region_counter, regions,
                   vad_frames, chopVars, cmpVars, addVars, aslVars, binVars>>

\* ========================================================================
\* Chopper.chop_wav
\* ========================================================================

\* int(): truncation toward zero of n/2
TruncHalf(n) == IF n >= 0 THEN n \div 2 ELSE -((-n) \div 2)

\* chop_s_dur = int(chop_dur * srate), chop_dur = mean + randn * std:
\* any integer, here a few around the half-window multiples
ChopDurs ==
    {s * k * (window_size \div 2) + o :
        s \in {-1, 1}, k \in {0} \cup {2 * j + 1 : j \in 0..MaxDurSteps},
        o \in {0, 1}}

\* chop_beg = max(int(reg_center - (chop_s_dur / 2)), reg_beg)
ChopBeg(reg, d) == Max(TruncHalf(2 * reg.center - d), reg.begin)

\* chop_end = min(int(reg_center + (chop_s_dur / 2)), reg_beg + reg_dur)
ChopEnd(reg, d) == Min(TruncHalf(2 * reg.center + d), reg.begin + reg.dur)

\* a Python slice bound resolved against a buffer of n samples
SliceIdx(i, n) == IF i < 0 THEN Max(i + n, 0) ELSE Min(i, n)

\* the population np.random.choice draws the region indices from
ChopPool(k, nreg) == 0 .. (k - 1)

Perms(S) ==
    {p \in [1..Cardinality(S) -> S] :
        \A i, j \in 1..Cardinality(S) : i # j => p[i] # p[j]}

ChopInit ==
    /\ max_chops \in 1..MaxMaxChops
    /\ chops = 0
    /\ chop_pool = {}
    /\ chop_idxs = <<>>
    /\ chop_pos = 1
    /\ chop_log = <<>>
    /\ chop_pc = "wait"

\* if len(speech_regions) == 0: return wav
ChopSkip ==
    /\ vad_pc = "done"
    /\ chop_pc = "wait"
    /\ Len(regions) = 0
    /\ chop_pc' = "done"
    /\ UNCHANGED <<vadVars, max_chops, chops, chop_pool, chop_idxs, chop_pos,
                   chop_log, cmpVars, addVars, aslVars, binVars>>

\* draw the number of chops, clamp it, and take region 0 when it is 1
ChopPickOne ==
    /\ vad_pc = "done"
    /\ chop_pc = "wait"
    /\ Len(regions) > 0
    /\ \E c \in 1..max_chops :
         /\ Min(c, Len(regions)) = 1
         /\ chops' = Min(c, Len(regions))
    /\ chop_pool' = {}
    /\ chop_idxs' = <<0>>
    /\ chop_pc' = "loop"
    /\ UNCHANGED <<vadVars, max_chops, chop_pos, chop_log, cmpVars, addVars, aslVars, binVars>>

\* draw the number of chops, clamp it, and draw the indices without
\* replacement
ChopPickMany ==
    /\ vad_pc = "done"
    /\ chop_pc = "wait"
    /\ Len(regions) > 0
    /\ \E c \in 1..max_chops :
         /\ Min(c, Len(regions)) > 1
         /\ chops' = Min(c, Len(regions))
         /\ chop_pool' = ChopPool(Min(c, Len(regions)), Len(regions))
         /\ \E S \in SUBSET ChopPool(Min(c, Len(regions)), Len(regions)) :
              /\ Cardinality(S) = Min(c, Len(regions))
              /\ chop_idxs' \in Perms(S)
    /\ chop_pc' = "loop"
    /\ UNCHANGED <<vadVars, max_chops, chop_pos, chop_log, cmpVars, addVars, aslVars, binVars>>

\* one iteration of `for chop_i in chop_idxs`
ChopStep ==
    /\ chop_pc = "loop"
    /\ chop_pos <= Len(chop_idxs)
    /\ \E d \in ChopDurs :
         LET chop_i == chop_idxs[chop_pos]
             region == regions[chop_i + 1]
             cb == ChopBeg(region, d)
             ce == ChopEnd(region, d)
             lo == SliceIdx(cb, wav_len)
             hi == SliceIdx(ce, wav_len)
         IN chop_log' = Append(chop_log,
                [idx |-> chop_i, reg |-> region, dur |-> d,
                 chop_beg |-> cb, chop_end |-> ce,
                 lo |-> lo, hi |-> Max(lo, hi)])
    /\ chop_pos' = chop_pos + 1
    /\ UNCHANGED <<vadVars, max_chops, chops, chop_pool, chop_idxs, chop_pc,
                   cmpVars, addVars, aslVars, binVars>>

ChopReturn ==
    /\ chop_pc = "loop"
    /\ chop_pos > Len(chop_idxs)
    /\ chop_pc' = "done"
    /\ UNCHANGED <<vadVars, max_chops, chops, chop_pool, chop_idxs, chop_pos,
                   chop_log, cmpVars, addVars, aslVars, binVars>>


\* ========================================================================
\* PCompose / SwitchCompose
\* ========================================================================

\* bounds of the compose model
MaxTransforms == 2
MaxBufLen == 2
RandRes == 8

Samples == {1, 2}
ReportIds == {7, 8}

Buffers == UNION {[1..n -> Samples] : n \in 0..MaxBufLen}

\* Python values: a buffer, a (buffer, report) tuple, or a single element
\* taken out of a buffer
Buf(b) == [tag |-> "buf", buf |-> b, rep |-> 0]
Pair(b, r) == [tag |-> "pair", buf |-> b, rep |-> r]
Scalar(s) == [tag |-> "scalar", buf |-> <<s>>, rep |-> 0]

\* what a transform may return: a bare buffer or a (buffer, report) tuple
TransfOutputs ==
    {Buf(b) : b \in Buffers} \cup
    {Pair(b, r) : b \in Buffers, r \in ReportIds}

\* the tensors handed to the pipeline
Tensors == {<<>>, <<1, 2>>}

\* len(x) of a value a transform returned
PyLen(v) == IF v.tag = "pair" THEN 2 ELSE Len(v.buf)

\* if len(x) == 2
HasReport(v) == PyLen(v) = 2

\* x, report = x
UnpackX(v) == IF v.tag = "pair" THEN Buf(v.buf) ELSE Scalar(v.buf[1])
UnpackReport(v) ==
    IF v.tag = "pair" THEN [tag |-> "rep", val |-> v.rep]
    ELSE [tag |-> "scalar", val |-> v.buf[2]]

\* random.random() <= self.probs, the draw being u/RandRes and probs p/RandRes
Bernoulli(u, p) == u <= p

NoReturn == [arity |-> 0, x |-> Buf(<<>>), reports |-> <<>>]

\* if self.report: return x, reports  else: return x
ComposeReturn(rep, xv, reps) ==
    IF rep THEN [arity |-> 2, x |-> xv, reports |-> reps]
    ELSE [arity |-> 1, x |-> xv, reports |-> <<>>]

CmpInit ==
    /\ cmp_kind \in {"P", "S"}
    /\ cmp_n \in 0..MaxTransforms
    /\ probs \in {0, RandRes \div 2, RandRes}
    /\ cmp_kind = "S" => probs = 0
    /\ cmp_report \in BOOLEAN
    /\ tensor \in Tensors
    /\ x = Buf(tensor)
    /\ reports = <<>>
    /\ calls = <<>>
    /\ cmp_i = 1
    /\ cmp_u = 0
    /\ cmp_pc = "loop"
    /\ cmp_ret = NoReturn

\* PCompose: the draw fails, the transform is skipped
PSkip ==
    /\ cmp_kind = "P" /\ cmp_pc = "loop" /\ cmp_i <= cmp_n
    /\ \E u \in 0..(RandRes - 1) :
         /\ ~Bernoulli(u, probs)
         /\ cmp_u' = u
    /\ cmp_i' = cmp_i + 1
    /\ UNCHANGED <<cmp_kind, cmp_n, probs, cmp_report, tensor, x, reports,
                   calls, cmp_pc, cmp_ret, vadVars, chopVars, addVars,
                   aslVars, binVars>>

\* PCompose: the transform is applied and its result kept whole
PApply ==
    /\ cmp_kind = "P" /\ cmp_pc = "loop" /\ cmp_i <= cmp_n
    /\ \E u \in 0..(RandRes - 1), out \in TransfOutputs :
         /\ Bernoulli(u, probs)
         /\ ~HasReport(out)
         /\ cmp_u' = u
         /\ calls' = Append(calls, [idx |-> cmp_i, arg |-> x, out |-> out])
         /\ x' = out
    /\ cmp_i' = cmp_i + 1
    /\ UNCHANGED <<cmp_kind, cmp_n, probs, cmp_report, tensor, reports,
                   cmp_pc, cmp_ret, vadVars, chopVars, addVars,
                   aslVars, binVars>>

\* PCompose: the transform is applied and its result unpacked
PApplyUnpack ==
    /\ cmp_kind = "P" /\ cmp_pc = "loop" /\ cmp_i <= cmp_n
    /\ \E u \in 0..(RandRes - 1), out \in TransfOutputs :
         /\ Bernoulli(u, probs)
         /\ HasReport(out)
         /\ cmp_u' = u
         /\ calls' = Append(calls, [idx |-> cmp_i, arg |-> x, out |-> out])
         /\ x' = UnpackX(out)
         /\ reports' = Append(reports, UnpackReport(out))
    /\ cmp_i' = cmp_i + 1
    /\ UNCHANGED <<cmp_kind, cmp_n, probs, cmp_report, tensor, cmp_pc,
                   cmp_ret, vadVars, chopVars, addVars, aslVars, binVars>>

PReturn ==
    /\ cmp_kind = "P" /\ cmp_pc = "loop" /\ cmp_i > cmp_n
    /\ cmp_ret' = ComposeReturn(cmp_report, x, reports)
    /\ cmp_pc' = "done"
    /\ UNCHANGED <<cmp_kind, cmp_n, probs, cmp_report, tensor, x, reports,
                   calls, cmp_i, cmp_u, vadVars, chopVars, addVars,
                   aslVars, binVars>>

\* SwitchCompose: random.choice of an empty list raises IndexError
SRaise ==
    /\ cmp_kind = "S" /\ cmp_pc = "loop" /\ cmp_n = 0
    /\ cmp_pc' = "error"
    /\ UNCHANGED <<cmp_kind, cmp_n, probs, cmp_report, tensor, x, reports,
                   calls, cmp_i, cmp_u, cmp_ret, vadVars, chopVars, addVars,
                   aslVars, binVars>>

\* SwitchCompose: one transform is drawn and applied, its result kept whole
SApply ==
    /\ cmp_kind = "S" /\ cmp_pc = "loop" /\ cmp_n > 0
    /\ \E idx \in 1..cmp_n, out \in TransfOutputs :
         /\ ~HasReport(out)
         /\ calls' = Append(calls, [idx |-> idx, arg |-> x, out |-> out])
         /\ x' = out
    /\ cmp_pc' = "ret"
    /\ UNCHANGED <<cmp_kind, cmp_n, probs, cmp_report, tensor, reports,
                   cmp_i, cmp_u, cmp_ret, vadVars, chopVars, addVars,
                   aslVars, binVars>>

\* SwitchCompose: one transform is drawn and applied, its result unpacked
SApplyUnpack ==
    /\ cmp_kind = "S" /\ cmp_pc = "loop" /\ cmp_n > 0
    /\ \E idx \in 1..cmp_n, out \in TransfOutputs :
         /\ HasReport(out)
         /\ calls' = Append(calls, [idx |-> idx, arg |-> x, out |-> out])
         /\ x' = UnpackX(out)
         /\ reports' = Append(reports, UnpackReport(out))
    /\ cmp_pc' = "ret"
    /\ UNCHANGED <<cmp_kind, cmp_n, probs, cmp_report, tensor, cmp_i, cmp_u,
                   cmp_ret, vadVars, chopVars, addVars, aslVars, binVars>>

SReturn ==
    /\ cmp_kind = "S" /\ cmp_pc = "ret"
    /\ cmp_ret' = ComposeReturn(cmp_report, x, reports)
    /\ cmp_pc' = "done"
    /\ UNCHANGED <<cmp_kind, cmp_n, probs, cmp_report, tensor, x, reports,
                   calls, cmp_i, cmp_u, vadVars, chopVars, addVars,
                   aslVars, binVars>>

\* ========================================================================
\* Additive.__call__ / Additive.addnoise_asl
\* ========================================================================

\* bounds of the additive model
MaxCleanLen == 3
MaxExtraNoise == 3
MaxPeak == 60

\* samples are counted in twentieths: Unit is 1.0, Unit + 1 is 1.05
Unit == 2 * 10

\* values a sample of clean + scaled noise takes
NoisyLevels ==
    {-MaxPeak, -Unit, 0, Unit, Unit + 1, Unit + 2, MaxPeak}

SeqMax(s) == CHOOSE m \in {s[i] : i \in DOMAIN s} : \A i \in DOMAIN s : s[i] <= m
SeqMin(s) == CHOOSE m \in {s[i] : i \in DOMAIN s} : \A i \in DOMAIN s : s[i] >= m

\* if noise_len <= x_len: raise ValueError
NoiseTooShortStrict(nl, xl) == nl < xl
NoiseTooShort(nl, xl) == nl <= xl

\* np.round: to the nearest integer, a tie to the even one (num, den >= 0)
RoundHalfEven(num, den) ==
    LET q == num \div den
        r == num % den
    IN IF 2 * r < den THEN q
       ELSE IF 2 * r > den THEN q + 1
       ELSE IF q % 2 = 0 THEN q ELSE q + 1

\* rand_start = int(np.round((rand_start_limit - 1) * np.random.rand(1) + 1))
\* with rand_start_limit = noise_len - x_len + 1 and the draw u/RandRes
RandStart(nl, xl, u) ==
    LET rand_start_limit == nl - xl + 1
    IN RoundHalfEven((rand_start_limit - 1) * u + RandRes, RandRes)

\* noise[rand_start:rand_start + x_len].shape[0]
SegmentLen(nl, xl, rs) ==
    Max(SliceIdx(rs + xl, nl) - SliceIdx(rs, nl), 0)

\* x + noise_segment: the shape numpy broadcasts (x_len,) and (seg_len,) to,
\* or NoneVal when the shapes do not broadcast
BroadcastLen(xl, sl) ==
    IF xl = sl THEN xl
    ELSE IF sl = 1 THEN xl
    ELSE IF xl = 1 THEN sl
    ELSE NoneVal

\* np.max(noisy) >= 1 or np.min(noisy) < -1, noisy being nz * num / (Unit * den)
ExceedsRangeMaxOnly(nz, num, den) ==
    SeqMax(nz) * num >= Unit * den
ExceedsRangeClosed(nz, num, den) ==
    \/ SeqMax(nz) * num > Unit * den
    \/ SeqMin(nz) * num < -(Unit * den)
ExceedsRange(nz, num, den) ==
    \/ SeqMax(nz) * num >= Unit * den
    \/ SeqMin(nz) * num < -(Unit * den)

AddInit ==
    /\ do_IRS \in BOOLEAN
    /\ x_len \in 1..MaxCleanLen
    /\ noise_len \in 1..(MaxCleanLen + MaxExtraNoise)
    /\ noise_len <= x_len + MaxExtraNoise
    /\ rand_start = 0
    /\ seg_len = 0
    /\ noisy = <<>>
    /\ small = 0
    /\ scale_num = 1
    /\ scale_den = 1
    /\ declips = 0
    /\ add_pc = "start"
    /\ add_err = "none"

\* if do_IRS: clean = self.apply_IRS(...), which raises NotImplementedError
AddIRSRaise ==
    /\ add_pc = "start"
    /\ do_IRS
    /\ add_pc' = "error"
    /\ add_err' = "not_implemented"
    /\ UNCHANGED <<do_IRS, x_len, noise_len, rand_start, seg_len, noisy,
                   small, scale_num, scale_den, declips, vadVars, chopVars,
                   cmpVars, aslVars, binVars>>

\* raise ValueError('Noise length has to be greater than speech length!')
AddLenRaise ==
    /\ add_pc = "start"
    /\ ~do_IRS
    /\ NoiseTooShort(noise_len, x_len)
    /\ add_pc' = "error"
    /\ add_err' = "noise_length"
    /\ UNCHANGED <<do_IRS, x_len, noise_len, rand_start, seg_len, noisy,
                   small, scale_num, scale_den, declips, vadVars, chopVars,
                   cmpVars, aslVars, binVars>>

\* draw the start and cut the noise segment
AddSegment ==
    /\ add_pc = "start"
    /\ ~do_IRS
    /\ ~NoiseTooShort(noise_len, x_len)
    /\ \E u \in 0..(RandRes - 1) :
         /\ rand_start' = RandStart(noise_len, x_len, u)
         /\ seg_len' = SegmentLen(noise_len, x_len,
                                  RandStart(noise_len, x_len, u))
    /\ add_pc' = "mix"
    /\ UNCHANGED <<do_IRS, x_len, noise_len, noisy, small, scale_num,
                   scale_den, declips, add_err, vadVars, chopVars, cmpVars,
                   aslVars, binVars>>

\* noisy = x + noise_segment * sf, the shapes broadcasting
AddMix ==
    /\ add_pc = "mix"
    /\ BroadcastLen(x_len, seg_len) # NoneVal
    /\ noisy' \in [1..BroadcastLen(x_len, seg_len) -> NoisyLevels]
    /\ add_pc' = "declip_test"
    /\ UNCHANGED <<do_IRS, x_len, noise_len, rand_start, seg_len, small,
                   scale_num, scale_den, declips, add_err, vadVars, chopVars,
                   cmpVars, aslVars, binVars>>

\* noisy = x + noise_segment * sf, the shapes not broadcasting: ValueError
AddMixRaise ==
    /\ add_pc = "mix"
    /\ BroadcastLen(x_len, seg_len) = NoneVal
    /\ add_pc' = "error"
    /\ add_err' = "broadcast"
    /\ UNCHANGED <<do_IRS, x_len, noise_len, rand_start, seg_len, noisy,
                   small, scale_num, scale_den, declips, vadVars, chopVars,
                   cmpVars, aslVars, binVars>>

\* np.max of an empty array raises ValueError
DeclipEmptyRaise ==
    /\ add_pc = "declip_test"
    /\ Len(noisy) = 0
    /\ add_pc' = "error"
    /\ add_err' = "empty_max"
    /\ UNCHANGED <<do_IRS, x_len, noise_len, rand_start, seg_len, noisy,
                   small, scale_num, scale_den, declips, vadVars, chopVars,
                   cmpVars, aslVars, binVars>>

\* the outer `if` is false: return the output unscaled
DeclipSkip ==
    /\ add_pc = "declip_test"
    /\ Len(noisy) > 0
    /\ ~ExceedsRange(noisy, scale_num, scale_den)
    /\ add_pc' = "done"
    /\ UNCHANGED <<do_IRS, x_len, noise_len, rand_start, seg_len, noisy,
                   small, scale_num, scale_den, declips, add_err, vadVars,
                   chopVars, cmpVars, aslVars, binVars>>

\* the outer `if` is true: small = 0.1 (small counts tenths)
DeclipEnter ==
    /\ add_pc = "declip_test"
    /\ Len(noisy) > 0
    /\ ExceedsRange(noisy, scale_num, scale_den)
    /\ small' = 1
    /\ add_pc' = "declip_loop"
    /\ UNCHANGED <<do_IRS, x_len, noise_len, rand_start, seg_len, noisy,
                   scale_num, scale_den, declips, add_err, vadVars, chopVars,
                   cmpVars, aslVars, binVars>>

\* noisy = noisy / (1. + small); small = small + 0.1
DeclipStep ==
    /\ add_pc = "declip_loop"
    /\ ExceedsRange(noisy, scale_num, scale_den)
    /\ scale_num' = scale_num * 10
    /\ scale_den' = scale_den * (10 + small)
    /\ small' = small + 1
    /\ declips' = declips + 1
    /\ UNCHANGED <<do_IRS, x_len, noise_len, rand_start, seg_len, noisy,
                   add_pc, add_err, vadVars, chopVars, cmpVars,
                   aslVars, binVars>>

\* the while condition is false: return
DeclipExit ==
    /\ add_pc = "declip_loop"
    /\ ~ExceedsRange(noisy, scale_num, scale_den)
    /\ add_pc' = "done"
    /\ UNCHANGED <<do_IRS, x_len, noise_len, rand_start, seg_len, noisy,
                   small, scale_num, scale_den, declips, add_err, vadVars,
                   chopVars, cmpVars, aslVars, binVars>>

\* ========================================================================
\* Additive.asl_P56: the per-sample threshold scan
\* ========================================================================

\* bounds of the asl model
MaxHang == 3
MaxBits == 4
MaxAslLen == 5

\* H = 0.2 seconds, as the fraction 1 / HInv
HInv == 5

\* sample rates: 5 i - 1 samples per second give a hangover of i samples
AslRates == {HInv * i - 1 : i \in 1..MaxHang}

\* I = np.ceil(srate * H)
Hangover(rate) == (rate + HInv - 1) \div HInv

\* thres_no = nbits - 1
ThresNo(nbits) == nbits - 1

RECURSIVE Pow2(_)
Pow2(n) == IF n = 0 THEN 1 ELSE 2 * Pow2(n - 1)

\* c[j] = 2 ** (j - 15), counted in units of 2 ** -16 (j from 0)
ThrDescending(j) == Pow2(MaxBits + 1 - j)
Thr(j) == Pow2(j + 1)

\* the envelope q[k] (two cascaded one-pole filters of |x|, zero initial
\* state): 0 while every sample so far is 0, otherwise some value >= 0,
\* here a threshold or the value just below it
EnvLevels(silent, nbits) ==
    IF silent THEN {0}
    ELSE {0} \cup {Thr(j) - e : j \in 0..(ThresNo(nbits) - 1), e \in {0, 1}}

\* hang = np.ones(c.shape[0]) * I
HangInitZero(nthr, I) == [j \in 0..(nthr - 1) |-> 0]
HangInit(nthr, I) == [j \in 0..(nthr - 1) |-> I]

\* a = np.zeros(c.shape[0])
CountInit(nthr) == [j \in 0..(nthr - 1) |-> 0]

\* elif hang[j] < I
HangLiveLate(h, I) == h <= I
HangLive(h, I) == h < I

\* the inner loop `for j in range(thres_no)` from threshold j on, for one
\* sample of envelope q; st = [a, hang]; `break` ends the scan
RECURSIVE ScanFrom(_, _, _, _, _)
ScanFrom(j, nthr, I, q, st) ==
    IF j >= nthr THEN st
    ELSE IF q >= Thr(j)
    THEN ScanFrom(j + 1, nthr, I, q,
                  [a |-> [st.a EXCEPT ![j] = @ + 1],
                   hang |-> [st.hang EXCEPT ![j] = 0]])
    ELSE IF HangLive(st.hang[j], I)
    THEN ScanFrom(j + 1, nthr, I, q,
                  [a |-> [st.a EXCEPT ![j] = @ + 1],
                   hang |-> [st.hang EXCEPT ![j] = @ + 1]])
    ELSE st

\* the scan of all the thresholds for one sample, the `else: break` left
\* out: what the early stop is compared with
RECURSIVE FullScanFrom(_, _, _, _, _)
FullScanFrom(j, nthr, I, q, st) ==
    IF j >= nthr THEN st
    ELSE IF q >= Thr(j)
    THEN FullScanFrom(j + 1, nthr, I, q,
                      [a |-> [st.a EXCEPT ![j] = @ + 1],
                       hang |-> [st.hang EXCEPT ![j] = 0]])
    ELSE IF HangLive(st.hang[j], I)
    THEN FullScanFrom(j + 1, nthr, I, q,
                      [a |-> [st.a EXCEPT ![j] = @ + 1],
                       hang |-> [st.hang EXCEPT ![j] = @ + 1]])
    ELSE FullScanFrom(j + 1, nthr, I, q, st)

\* the zero triple (asl_ms, asl, c0) = (0, 0, None)
ZeroTriple == [asl_ms |-> 0, asl |-> 0, c0 |-> NoneVal]

AslInit ==
    /\ asl_srate \in AslRates
    /\ asl_nbits \in 3..MaxBits
    /\ asl_len \in 1..MaxAslLen
    /\ asl_k = 0
    /\ asl_silent = TRUE
    /\ asl_q = 0
    /\ asl_a = CountInit(ThresNo(asl_nbits))
    /\ asl_hang = HangInit(ThresNo(asl_nbits), Hangover(asl_srate))
    /\ full_a = CountInit(ThresNo(asl_nbits))
    /\ full_hang = HangInit(ThresNo(asl_nbits), Hangover(asl_srate))
    /\ asl_pc = "scan"
    /\ asl_ret = ZeroTriple

\* one iteration of `for k in range(x_len)`: sample k is zero or not, its
\* envelope is q, and the thresholds are scanned
AslSample ==
    /\ asl_pc = "scan"
    /\ asl_k < asl_len
    /\ \E nz \in BOOLEAN :
         /\ asl_silent' = (asl_silent /\ ~nz)
         /\ \E q \in EnvLevels(asl_silent /\ ~nz, asl_nbits) :
              LET I == Hangover(asl_srate)
                  nthr == ThresNo(asl_nbits)
                  st == ScanFrom(0, nthr, I, q,
                                 [a |-> asl_a, hang |-> asl_hang])
                  fst == FullScanFrom(0, nthr, I, q,
                                      [a |-> full_a, hang |-> full_hang])
              IN /\ asl_q' = q
                 /\ asl_a' = st.a
                 /\ asl_hang' = st.hang
                 /\ full_a' = fst.a
                 /\ full_hang' = fst.hang
    /\ asl_k' = asl_k + 1
    /\ UNCHANGED <<asl_srate, asl_nbits, asl_len, asl_pc, asl_ret, vadVars,
                   chopVars, cmpVars, addVars, binVars>>

\* if a[0] == 0: return asl_ms, asl, c0
AslReturnSilent ==
    /\ asl_pc = "scan"
    /\ asl_k >= asl_len
    /\ asl_a[0] = 0
    /\ asl_ret' = ZeroTriple
    /\ asl_pc' = "done"
    /\ UNCHANGED <<asl_srate, asl_nbits, asl_len, asl_k, asl_silent, asl_q,
                   asl_a, asl_hang, full_a, full_hang, vadVars, chopVars,
                   cmpVars, addVars, binVars>>

\* a[0] != 0: go on to the levels in dB and the interpolation
AslLevels ==
    /\ asl_pc = "scan"
    /\ asl_k >= asl_len
    /\ asl_a[0] # 0
    /\ asl_pc' = "levels"
    /\ UNCHANGED <<asl_srate, asl_nbits, asl_len, asl_k, asl_silent, asl_q,
                   asl_a, asl_hang, full_a, full_hang, asl_ret, vadVars,
                   chopVars, cmpVars, addVars, binVars>>

\* ========================================================================
\* Additive.bin_interp
\* ========================================================================
\* Levels in dB are counted in tenths (15.9 dB is 159).  The midpoints are
\* the exact fractions midcount / 2^halvings and midthr / 2^halvings, and the
\* tolerance is tol.num * 1.1^tol.relax.  The numerators outgrow machine
\* integers, so they are integers of any size: a sign and the digits in base
\* BigBase, lowest digit first, without leading zero digits.

\* bounds of the bin_interp model
MaxBinDiff == 40

\* if iterno > 20
IterRelax == 20

BigBase == 10 * 1000

Abs(n) == IF n < 0 THEN -n ELSE n

\* The operators on digits are functions, so that each is applied to the
\* value of its argument.

Strip[d \in Seq(Nat)] ==
    IF d = <<>> THEN d
    ELSE IF d[Len(d)] = 0 THEN Strip[SubSeq(d, 1, Len(d) - 1)]
    ELSE d

\* a natural number below BigBase * BigBase as digits
NatDigits(n) ==
    IF n = 0 THEN <<>>
    ELSE IF n < BigBase THEN <<n>>
    ELSE <<n % BigBase, n \div BigBase>>

MulCarry[d \in Seq(Nat), m \in Nat, carry \in Nat] ==
    IF d = <<>> THEN NatDigits(carry)
    ELSE <<(Head(d) * m + carry) % BigBase>> \o
         MulCarry[Tail(d), m, (Head(d) * m + carry) \div BigBase]

\* d * m for 0 <= m < BigBase
NatMulSmall[d \in Seq(Nat), m \in Nat] == Strip[MulCarry[d, m, 0]]

\* d * m^k
NatMulPow[d \in Seq(Nat), m \in Nat, k \in Nat] ==
    IF k = 0 THEN d ELSE NatMulPow[NatMulSmall[d, m], m, k - 1]

DigitAt(d, i) == IF i <= Len(d) THEN d[i] ELSE 0

AddCarry[d \in Seq(Nat), e \in Seq(Nat), carry \in Nat] ==
    IF d = <<>> /\ e = <<>> THEN NatDigits(carry)
    ELSE <<(DigitAt(d, 1) + DigitAt(e, 1) + carry) % BigBase>> \o
         AddCarry[IF d = <<>> THEN d ELSE Tail(d),
                  IF e = <<>> THEN e ELSE Tail(e),
                  (DigitAt(d, 1) + DigitAt(e, 1) + carry) \div BigBase]

NatAdd[d \in Seq(Nat), e \in Seq(Nat)] == Strip[AddCarry[d, e, 0]]

\* d - e for d >= e
SubBorrow[d \in Seq(Nat), e \in Seq(Nat), borrow \in Nat] ==
    IF d = <<>> THEN <<>>
    ELSE <<(Head(d) - DigitAt(e, 1) - borrow + BigBase) % BigBase>> \o
         SubBorrow[Tail(d), IF e = <<>> THEN e ELSE Tail(e),
                   IF Head(d) - DigitAt(e, 1) - borrow < 0 THEN 1 ELSE 0]

NatSub[d \in Seq(Nat), e \in Seq(Nat)] == Strip[SubBorrow[d, e, 0]]

\* -1, 0 or 1 as d <, =, > e, comparing from digit i down
CmpFrom[d \in Seq(Nat), e \in Seq(Nat), i \in Nat] ==
    IF i = 0 THEN 0
    ELSE IF d[i] < e[i] THEN -1
    ELSE IF d[i] > e[i] THEN 1
    ELSE CmpFrom[d, e, i - 1]

NatCmp[d \in Seq(Nat), e \in Seq(Nat)] ==
    IF Len(d) < Len(e) THEN -1
    ELSE IF Len(d) > Len(e) THEN 1
    ELSE CmpFrom[d, e, Len(d)]

NatEven(d) == d = <<>> \/ d[1] % 2 = 0

\* d / 2 for an even d
NatHalf[d \in Seq(Nat)] ==
    Strip[[i \in 1..Len(d) |->
             (d[i] + (IF i < Len(d) /\ d[i + 1] % 2 = 1 THEN BigBase ELSE 0))
                \div 2]]

\* signed integers
BigInts == [neg : BOOLEAN, mag : Seq(Nat)]
Big(isNeg, d) == [neg |-> isNeg /\ d # <<>>, mag |-> d]
BigInt(n) == Big(n < 0, NatDigits(Abs(n)))
BigNeg(p) == Big(~p.neg, p.mag)
BigAdd[p \in BigInts, r \in BigInts] ==
    IF p.neg = r.neg THEN Big(p.neg, NatAdd[p.mag, r.mag])
    ELSE IF NatCmp[p.mag, r.mag] >= 0 THEN Big(p.neg, NatSub[p.mag, r.mag])
    ELSE Big(r.neg, NatSub[r.mag, p.mag])

\* n * 2^h
Scaled(n, h) == Big(n < 0, NatMulPow[NatDigits(Abs(n)), 2, h])

\* the pair of midpoints [count, thr, h] in lowest terms
MidPairs == [count : BigInts, thr : BigInts, h : Nat]
Reduce[m \in MidPairs] ==
    IF m.h > 0 /\ NatEven(m.count.mag) /\ NatEven(m.thr.mag)
    THEN Reduce[[count |-> Big(m.count.neg, NatHalf[m.count.mag]),
                 thr |-> Big(m.thr.neg, NatHalf[m.thr.mag]),
                 h |-> m.h - 1]]
    ELSE m

\* midcount = (upcount + lwcount) / 2; midthr = (upthr + lwthr) / 2
MidFirst(uc, lc, ut, lt) ==
    Reduce[[count |-> BigInt(uc + lc), thr |-> BigInt(ut + lt), h |-> 1]]

\* midcount = (upcount + midcount) / 2; midthr = (upthr + midthr) / 2
MidUp(m, uc, ut) ==
    Reduce[[count |-> BigAdd[Scaled(uc, m.h), m.count],
            thr |-> BigAdd[Scaled(ut, m.h), m.thr],
            h |-> m.h + 1]]

\* midcount = (midcount - lwcount) / 2; midthr = (midthr + lwthr) / 2
MidLow(m, lc, lt) ==
    Reduce[[count |-> BigAdd[m.count, BigNeg(Scaled(lc, m.h))],
            thr |-> BigAdd[m.thr, Scaled(lt, m.h)],
            h |-> m.h + 1]]

\* diff = midcount - midthr - Margin, as a numerator over 2^h
Diff(m, marg) ==
    BigAdd[BigAdd[m.count, BigNeg(m.thr)], BigNeg(Scaled(marg, m.h))]

\* -1, 0 or 1 as |diff| <, =, > the tolerance tl
AbsDiffCmpTol(m, marg, tl) ==
    NatCmp[NatMulPow[Diff(m, marg).mag, 10, tl.relax],
           NatMulPow[NatMulPow[NatDigits(tl.num), 11, tl.relax], 2, m.h]]

\* a level given to the function, as a midpoint pair
Level(cnt, thr) == [count |-> BigInt(cnt), thr |-> BigInt(thr), h |-> 0]

\* if np.abs(upcount - upthr - Margin) < tol  (and the same for lw)
EarlyTest(cnt, thr, marg, tl) == AbsDiffCmpTol(Level(cnt, thr), marg, tl) < 0

\* the pair the first early return hands back
EarlyUpReturn(uc, ut, lc, lt) == Level(lc, lt)

\* if np.abs(diff) <= tol: break
ExitTest(m, marg, tl) == AbsDiffCmpTol(m, marg, tl) <= 0

\* if diff > tol
DiffAbove(m, marg, tl) ==
    ~Diff(m, marg).neg /\ AbsDiffCmpTol(m, marg, tl) > 0

\* elif diff < -tol
DiffBelow(m, marg, tl) ==
    Diff(m, marg).neg /\ AbsDiffCmpTol(m, marg, tl) > 0

\* tol *= 1.1 (0 stays 0)
TolRelaxNone(tl) == tl
TolRelax(tl) == IF tl.num = 0 THEN tl ELSE [tl EXCEPT !.relax = @ + 1]

\* iterno += 1, then the tolerance in force; iterno is counted up to
\* IterRelax + 1, which is all `iterno > 20` reads
IterNext(it) == Min(it + 1, IterRelax + 1)
TolNext(it, tl) == IF IterNext(it) > IterRelax THEN TolRelax(tl) ELSE tl

\* the levels a bracket is drawn from: Margin plus a difference
BinDiffs == {-MaxBinDiff, -3, 0, 3, MaxBinDiff, 58}

Mid == [count |-> midcount, thr |-> midthr, h |-> halvings]

BinInit ==
    /\ Margin \in {0, 159}
    /\ tol \in {[num |-> t, relax |-> 0] : t \in {-5, 0, 5}}
    /\ upthr \in {0, 60}
    /\ lwthr = 0
    /\ upcount \in {Margin + d : d \in BinDiffs}
    /\ lwcount \in {Margin + d : d \in BinDiffs}
    \* with a zero tolerance only the brackets that keep the exact
    \* midpoints in finitely many values
    /\ tol.num = 0 =>
         (upcount = lwcount /\ upthr = lwthr /\ upcount >= Margin)
    /\ iterno = 0
    /\ midcount = BigInt(0)
    /\ midthr = BigInt(0)
    /\ halvings = 0
    /\ bin_pc = "start"
    /\ bin_ret = Level(0, 0)

\* if tol < 0: tol = -tol; iterno = 1
BinAbs ==
    /\ bin_pc = "start"
    /\ tol' = [tol EXCEPT !.num = Abs(@)]
    /\ iterno' = 1
    /\ bin_pc' = "early"
    /\ UNCHANGED <<upcount, lwcount, upthr, lwthr, Margin, midcount, midthr,
                   halvings, bin_ret, vadVars, chopVars, cmpVars, addVars,
                   aslVars>>

\* the upper extreme meets the margin: first early return
BinEarlyUp ==
    /\ bin_pc = "early"
    /\ EarlyTest(upcount, upthr, Margin, tol)
    /\ bin_ret' = EarlyUpReturn(upcount, upthr, lwcount, lwthr)
    /\ bin_pc' = "done"
    /\ UNCHANGED <<upcount, lwcount, upthr, lwthr, Margin, tol, iterno,
                   midcount, midthr, halvings, vadVars, chopVars, cmpVars,
                   addVars, aslVars>>

\* the lower extreme meets the margin: second early return
BinEarlyLow ==
    /\ bin_pc = "early"
    /\ ~EarlyTest(upcount, upthr, Margin, tol)
    /\ EarlyTest(lwcount, lwthr, Margin, tol)
    /\ bin_ret' = Level(lwcount, lwthr)
    /\ bin_pc' = "done"
    /\ UNCHANGED <<upcount, lwcount, upthr, lwthr, Margin, tol, iterno,
                   midcount, midthr, halvings, vadVars, chopVars, cmpVars,
                   addVars, aslVars>>

\* the first midpoints
BinEnter ==
    /\ bin_pc = "early"
    /\ ~EarlyTest(upcount, upthr, Margin, tol)
    /\ ~EarlyTest(lwcount, lwthr, Margin, tol)
    /\ LET m == MidFirst(upcount, lwcount, upthr, lwthr)
       IN /\ midcount' = m.count
          /\ midthr' = m.thr
          /\ halvings' = m.h
    /\ bin_pc' = "loop"
    /\ UNCHANGED <<upcount, lwcount, upthr, lwthr, Margin, tol, iterno,
                   bin_ret, vadVars, chopVars, cmpVars, addVars, aslVars>>

\* the difference is within the tolerance: break and return the midpoints
BinExit ==
    /\ bin_pc = "loop"
    /\ ExitTest(Mid, Margin, tol)
    /\ bin_ret' = Mid
    /\ bin_pc' = "done"
    /\ UNCHANGED <<upcount, lwcount, upthr, lwthr, Margin, tol, iterno,
                   midcount, midthr, halvings, vadVars, chopVars, cmpVars,
                   addVars, aslVars>>

\* the difference is outside the tolerance: into the loop body
BinContinue ==
    /\ bin_pc = "loop"
    /\ ~ExitTest(Mid, Margin, tol)
    /\ bin_pc' = "body"
    /\ UNCHANGED <<upcount, lwcount, upthr, lwthr, Margin, tol, iterno,
                   midcount, midthr, halvings, bin_ret, vadVars, chopVars,
                   cmpVars, addVars, aslVars>>

\* one iteration that moves the midpoints toward the upper extreme
BinStepUp ==
    /\ bin_pc = "body"
    /\ DiffAbove(Mid, Margin, TolNext(iterno, tol))
    /\ iterno' = IterNext(iterno)
    /\ bin_pc' = "loop"
    /\ tol' = TolNext(iterno, tol)
    /\ LET m == MidUp(Mid, upcount, upthr)
       IN /\ midcount' = m.count
          /\ midthr' = m.thr
          /\ halvings' = m.h
    /\ UNCHANGED <<upcount, lwcount, upthr, lwthr, Margin, bin_ret,
                   vadVars, chopVars, cmpVars, addVars, aslVars>>

\* one iteration that moves the midpoints by the lower-extreme formulas
BinStepLow ==
    /\ bin_pc = "body"
    /\ DiffBelow(Mid, Margin, TolNext(iterno, tol))
    /\ iterno' = IterNext(iterno)
    /\ bin_pc' = "loop"
    /\ tol' = TolNext(iterno, tol)
    /\ LET m == MidLow(Mid, lwcount, lwthr)
       IN /\ midcount' = m.count
          /\ midthr' = m.thr
          /\ halvings' = m.h
    /\ UNCHANGED <<upcount, lwcount, upthr, lwthr, Margin, bin_ret,
                   vadVars, chopVars, cmpVars, addVars, aslVars>>

\* one iteration in which the relaxed tolerance already covers the
\* difference: neither branch runs
BinStepHold ==
    /\ bin_pc = "body"
    /\ ~DiffAbove(Mid, Margin, TolNext(iterno, tol))
    /\ ~DiffBelow(Mid, Margin, TolNext(iterno, tol))
    /\ iterno' = IterNext(iterno)
    /\ bin_pc' = "loop"
    /\ tol' = TolNext(iterno, tol)
    /\ UNCHANGED <<upcount, lwcount, upthr, lwthr, Margin, midcount, midthr,
                   halvings, bin_ret, vadVars, chopVars, cmpVars,
                   addVars, aslVars>>

\* ========================================================================
\* Specifications
\* ========================================================================

AslIdle ==
    /\ asl_srate = 0 /\ asl_nbits = 0 /\ asl_len = 0 /\ asl_k = 0
    /\ asl_silent = TRUE /\ asl_q = 0 /\ asl_a = <<>> /\ asl_hang = <<>>
    /\ full_a = <<>> /\ full_hang = <<>> /\ asl_pc = "off"
    /\ asl_ret = ZeroTriple

BinIdle ==
    /\ upcount = 0 /\ lwcount = 0 /\ upthr = 0 /\ lwthr = 0 /\ Margin = 0
    /\ tol = [num |-> 0, relax |-> 0] /\ iterno = 0
    /\ midcount = BigInt(0) /\ midthr = BigInt(0) /\ halvings = 0
    /\ bin_pc = "off" /\ bin_ret = Level(0, 0)

VadIdle ==
    /\ srate = VadRate /\ wav_len = 0 /\ beg_i = 0 /\ init = NoneVal
    /\ curr_region_counter = 0 /\ regions = <<>> /\ vad_frames = <<>>
    /\ vad_pc = "off"

ChopIdle ==
    /\ max_chops = 1 /\ chops = 0 /\ chop_pool = {} /\ chop_idxs = <<>>
    /\ chop_pos = 1 /\ chop_log = <<>> /\ chop_pc = "off"

CmpIdle ==
    /\ cmp_kind = "off" /\ cmp_n = 0 /\ probs = 0 /\ cmp_report = FALSE
    /\ tensor = <<>> /\ x = Buf(<<>>) /\ reports = <<>> /\ calls = <<>>
    /\ cmp_i = 1 /\ cmp_u = 0 /\ cmp_pc = "off" /\ cmp_ret = NoReturn

AddIdle ==
    /\ do_IRS = FALSE /\ x_len = 1 /\ noise_len = 1 /\ rand_start = 0
    /\ seg_len = 0 /\ noisy = <<>> /\ small = 0 /\ scale_num = 1
    /\ scale_den = 1 /\ declips = 0 /\ add_pc = "off" /\ add_err = "none"

\* Chopper.vad_wav alone, on signals of up to MaxWindows windows
InitVad == VadInit(MaxWindows) /\ ChopIdle /\ CmpIdle /\ AddIdle
    /\ AslIdle /\ BinIdle
NextVad == VadRaise \/ VadEnter \/ VadSpeech \/ VadSilence \/ VadReturn
SpecVad == InitVad /\ [][NextVad]_vars

\* Chopper.__call__: vad_wav, then chop_wav on the regions it returned
InitChopper == VadInit(ChopWindows) /\ ChopInit /\ CmpIdle /\ AddIdle
    /\ AslIdle /\ BinIdle
NextChopper ==
    \/ VadRaise \/ VadEnter \/ VadSpeech \/ VadSilence \/ VadReturn
    \/ ChopSkip \/ ChopPickOne \/ ChopPickMany \/ ChopStep \/ ChopReturn
SpecChopper == InitChopper /\ [][NextChopper]_vars

\* PCompose.__call__ and SwitchCompose.__call__
InitCompose == VadIdle /\ ChopIdle /\ CmpInit /\ AddIdle
    /\ AslIdle /\ BinIdle
NextCompose ==
    \/ PSkip \/ PApply \/ PApplyUnpack \/ PReturn
    \/ SRaise \/ SApply \/ SApplyUnpack \/ SReturn
SpecCompose == InitCompose /\ [][NextCompose]_vars

\* Additive.__call__
InitAdditive == VadIdle /\ ChopIdle /\ CmpIdle /\ AddInit
    /\ AslIdle /\ BinIdle
NextAdditive ==
    \/ AddIRSRaise \/ AddLenRaise \/ AddSegment \/ AddMix \/ AddMixRaise
    \/ DeclipEmptyRaise \/ DeclipSkip \/ DeclipEnter \/ DeclipStep
    \/ DeclipExit
SpecAdditive == InitAdditive /\ [][NextAdditive]_vars
\* the interpreter runs the call to its end: no step is postponed forever
SpecAdditiveFair == SpecAdditive /\ WF_vars(NextAdditive)

\* Additive.asl_P56: the threshold scan and the silent return
InitAsl == VadIdle /\ ChopIdle /\ CmpIdle /\ AddIdle /\ AslInit /\ BinIdle
NextAsl == AslSample \/ AslReturnSilent \/ AslLevels
SpecAsl == InitAsl /\ [][NextAsl]_vars

\* Additive.bin_interp
InitBin == VadIdle /\ ChopIdle /\ CmpIdle /\ AddIdle /\ AslIdle /\ BinInit
NextBin ==
    \/ BinAbs \/ BinEarlyUp \/ BinEarlyLow \/ BinEnter \/ BinExit
    \/ BinContinue \/ BinStepUp \/ BinStepLow \/ BinStepHold
SpecBin == InitBin /\ [][NextBin]_vars
\* the interpreter runs the call to its end: no step is postponed forever
SpecBinFair == SpecBin /\ WF_vars(NextBin)

\* ========================================================================
\* Properties of Chopper.vad_wav
\* ========================================================================

\* the maximal runs <<first, last>> of speech windows among the windows
\* handed to the classifier
SpeechRuns ==
    LET n == Len(vad_frames)
    IN {r \in (1..n) \X (1..n) :
          /\ r[1] <= r[2]
          /\ \A k \in r[1]..r[2] : vad_frames[k].speech
          /\ (r[1] = 1 \/ ~vad_frames[r[1] - 1].speech)
          /\ (r[2] = n \/ ~vad_frames[r[2] + 1].speech)}

\* C1: vad_wav returns exactly one region per maximal run of consecutive
\* speech-classified full windows, a run that lasts up to the final window
\* of the signal included, with begin = run start and duration =
\* windowCount * window_size.
VadOneRegionPerRun ==
    vad_pc = "done" =>
        /\ Len(regions) = Cardinality(SpeechRuns)
        /\ \A r \in SpeechRuns :
             \E k \in 1..Len(regions) :
                /\ regions[k].begin = (r[1] - 1) * window_size
                /\ regions[k].dur = (r[2] - r[1] + 1) * window_size

\* C7: the regions are time-ordered and non-overlapping, each begins at a
\* multiple of window_size, lasts a positive multiple of window_size, ends
\* inside the signal and has center = begin + duration/2; and no frame
\* shorter than window_size is handed to the classifier.
VadRegionsWellFormed ==
    /\ \A k \in 1..Len(regions) :
         /\ regions[k].begin >= 0
         /\ regions[k].begin % window_size = 0
         /\ regions[k].dur > 0
         /\ regions[k].dur % window_size = 0
         /\ regions[k].begin + regions[k].dur <= wav_len
         /\ 2 * regions[k].center = 2 * regions[k].begin + regions[k].dur
         /\ k < Len(regions) =>
              regions[k].begin + regions[k].dur <= regions[k + 1].begin
    /\ \A k \in 1..Len(vad_frames) : vad_frames[k].len = window_size

\* two regions were returned for a signal that ends in a partial window
VadTwoRegionsPartialTail ==
    /\ vad_pc = "done"
    /\ Len(regions) >= 2
    /\ wav_len % window_size # 0

\* ========================================================================
\* Properties of Chopper.chop_wav
\* ========================================================================

\* C2: whatever the drawn duration, the samples a chop zeroes lie inside
\* the bounds [begin, begin + duration) of the region it was drawn for, so
\* every sample outside the selected regions keeps its input value.
ChopWithinRegion ==
    \A k \in 1..Len(chop_log) :
        chop_log[k].lo < chop_log[k].hi =>
            /\ chop_log[k].reg.begin <= chop_log[k].lo
            /\ chop_log[k].hi <= chop_log[k].reg.begin + chop_log[k].reg.dur

\* C3: when the clamped chop count is above 1, the region indices are
\* distinct and drawn from all the region indices 0..regionCount-1.
ChopDrawsFromAllRegions ==
    (chop_pc \in {"loop", "done"} /\ chops > 1) =>
        /\ chop_pool = 0 .. (Len(regions) - 1)
        /\ Len(chop_idxs) = chops
        /\ \A i, j \in 1..Len(chop_idxs) : i # j => chop_idxs[i] # chop_idxs[j]

\* ========================================================================
\* Properties of PCompose / SwitchCompose
\* ========================================================================

\* the buffer a transform returned, without its report
OutBuffer(out) == Buf(out.buf)

\* the reports the applied transforms emitted, in application order
EmittedReports ==
    LET withRep == SelectSeq(calls, LAMBDA c : c.out.tag = "pair")
    IN [k \in 1..Len(withRep) |-> [tag |-> "rep", val |-> withRep[k].out.rep]]

\* the buffer the last applied transform returned (the input when none ran)
FinalBuffer ==
    IF calls = <<>> THEN Buf(tensor) ELSE OutBuffer(calls[Len(calls)].out)

\* C4: PCompose with p = 0 applies no transform and returns its input,
\* whatever the draws; with p = 1 it applies every transform once, in list
\* order, each to the output of the previous one.
PComposeZeroAndOne ==
    (cmp_kind = "P" /\ cmp_pc = "done") =>
        /\ probs = 0 => (calls = <<>> /\ cmp_ret.x = Buf(tensor))
        /\ probs = RandRes =>
             /\ Len(calls) = cmp_n
             /\ \A k \in 1..Len(calls) :
                  /\ calls[k].idx = k
                  /\ calls[k].arg = IF k = 1 THEN Buf(tensor)
                                    ELSE OutBuffer(calls[k - 1].out)

\* C6: with report=True the result is the pair (final buffer, reports of
\* the applied transforms in order); with report=False it is the final
\* buffer alone; a returned buffer that carries no report is passed on
\* whole and adds nothing to the report list.
ComposeReportContract ==
    cmp_pc = "done" =>
        /\ cmp_ret.x = FinalBuffer
        /\ cmp_report => (cmp_ret.arity = 2 /\ cmp_ret.reports = EmittedReports)
        /\ ~cmp_report => cmp_ret.arity = 1

\* ========================================================================
\* Properties of Additive
\* ========================================================================

\* C5: once the start is drawn (noise_len > x_len), the segment lies inside
\* the noise buffer and has x_len samples, and the noisy output has the
\* length of the clean input.
NoiseSegmentInside ==
    /\ add_pc = "mix" =>
         /\ rand_start >= 0
         /\ rand_start + x_len <= noise_len
         /\ seg_len = x_len
    /\ add_pc = "done" => Len(noisy) = x_len

\* C8 as stated: every call with noise_len <= x_len ends in the
\* insufficient-noise-length error with no output, and no call with
\* noise_len > x_len raises it.
AdditiveLengthError ==
    /\ (add_pc # "start" /\ noise_len <= x_len) =>
         (add_pc = "error" /\ add_err = "noise_length" /\ noisy = <<>>)
    /\ noise_len > x_len => add_err # "noise_length"

\* C8 (amended): with do_IRS off, every call with noise_len <= x_len ends
\* in the insufficient-noise-length error with no output; no call with
\* noise_len > x_len raises it.
AdditiveLengthErrorNoIRS ==
    /\ (add_pc # "start" /\ ~do_IRS /\ noise_len <= x_len) =>
         (add_pc = "error" /\ add_err = "noise_length" /\ noisy = <<>>)
    /\ noise_len > x_len => add_err # "noise_length"

\* the length error was raised for a noise exactly as long as the clean input
LengthErrorAtEquality ==
    /\ ~do_IRS
    /\ noise_len = x_len
    /\ add_pc = "error"
    /\ add_err = "noise_length"

\* 10^n and (10+1)(10+2)...(10+n): the divisor after n iterations is
\* DivProd(n) / Pow10(n) = (1.1)(1.2)...(1 + 0.1 n)
RECURSIVE Pow10(_)
Pow10(n) == IF n = 0 THEN 1 ELSE 10 * Pow10(n - 1)
RECURSIVE DivProd(_)
DivProd(n) == IF n = 0 THEN 1 ELSE (10 + n) * DivProd(n - 1)

\* every sample of nz divided by (1.1)...(1 + 0.1 n) lies in [-1, 1]
WithinClosed(nz, n) ==
    \A i \in DOMAIN nz :
        /\ nz[i] * Pow10(n) <= Unit * DivProd(n)
        /\ nz[i] * Pow10(n) >= -(Unit * DivProd(n))

\* every sample of nz divided by (1.1)...(1 + 0.1 n) lies in [-1, 1)
WithinHalfOpen(nz, n) ==
    \A i \in DOMAIN nz :
        /\ nz[i] * Pow10(n) < Unit * DivProd(n)
        /\ nz[i] * Pow10(n) >= -(Unit * DivProd(n))

\* C9: the de-clip loop ends; it divides by 1.1, then 1.2, then 1.3, ...;
\* and every sample of the returned buffer lies within [-1, 1].
DeclipTerminatesInRange ==
    /\ [](add_pc = "done" =>
            \A i \in DOMAIN noisy :
               /\ noisy[i] * scale_num <= Unit * scale_den
               /\ noisy[i] * scale_num >= -(Unit * scale_den))
    /\ [](/\ scale_num = Pow10(declips)
          /\ scale_den = DivProd(declips)
          /\ add_pc = "declip_loop" => small = declips + 1)
    /\ (add_pc = "declip_loop") ~> (add_pc = "done")

\* the call returned after dividing more than once
DeclipTwiceDone ==
    /\ add_pc = "done"
    /\ declips >= 2

\* C10 as stated: the number of iterations is the least n for which the
\* output divided by (1.1)...(1 + 0.1 n) lies within the closed [-1, 1].
DeclipCountLeastClosed ==
    add_pc = "done" =>
        /\ WithinClosed(noisy, declips)
        /\ \A m \in 0..(declips - 1) : ~WithinClosed(noisy, m)

\* C10 (amended): the number of iterations is the least n for which the
\* output divided by (1.1)...(1 + 0.1 n) lies within [-1, 1), that is
\* max < 1 and min >= -1; a peak of exactly 1.05 takes one iteration.
DeclipCountLeastHalfOpen ==
    add_pc = "done" =>
        /\ WithinHalfOpen(noisy, declips)
        /\ \A m \in 0..(declips - 1) : ~WithinHalfOpen(noisy, m)

\* a peak of exactly 1.05 was returned after one iteration
DeclipPeak105Once ==
    /\ add_pc = "done"
    /\ SeqMax(noisy) = Unit + 1
    /\ SeqMin(noisy) >= -Unit
    /\ declips = 1

\* ========================================================================
\* Properties of Additive.asl_P56
\* ========================================================================

\* C11: on an all-zero signal no activity counter is ever incremented, every
\* hangover counter stays expired (equal to I), and the call returns the
\* zero triple (0, 0, None).
AslZeroSignalSilent ==
    (asl_pc # "off" /\ asl_silent) =>
        /\ \A j \in DOMAIN asl_a :
             /\ asl_a[j] = 0
             /\ asl_hang[j] = Hangover(asl_srate)
        /\ asl_pc # "levels"
        /\ asl_pc = "done" => asl_ret = ZeroTriple

\* an all-zero signal of two samples or more was scanned and returned
AslZeroSignalReturned ==
    /\ asl_pc = "done"
    /\ asl_silent
    /\ asl_k = asl_len
    /\ asl_len >= 2

\* C14: after any prefix of samples the hangover counters are
\* non-decreasing in j and within [0, I], the activity counters are
\* non-increasing in j and at most the number of samples processed, and
\* every counter equals what the scan without the early stop produces.
AslScanMonotoneAndFull ==
    asl_pc # "off" =>
        /\ \A j \in DOMAIN asl_a :
             /\ asl_hang[j] >= 0
             /\ asl_hang[j] <= Hangover(asl_srate)
             /\ asl_a[j] >= 0
             /\ asl_a[j] <= asl_k
             /\ (j + 1) \in DOMAIN asl_a =>
                  /\ asl_hang[j] <= asl_hang[j + 1]
                  /\ asl_a[j] >= asl_a[j + 1]
        /\ asl_a = full_a
        /\ asl_hang = full_hang

\* the scan stopped early at a threshold whose hangover expired after some
\* activity, while a lower threshold was still live
AslEarlyStopAfterActivity ==
    /\ asl_pc = "scan"
    /\ asl_k >= 2
    /\ \E j \in DOMAIN asl_a :
         /\ j >= 1
         /\ (j + 1) \in DOMAIN asl_a
         /\ asl_hang[j] = Hangover(asl_srate)
         /\ asl_a[j] > 0
         /\ asl_a[0] > asl_a[j]
         /\ asl_hang[0] < Hangover(asl_srate)
         /\ asl_q < Thr(j)

\* ========================================================================
\* Properties of Additive.bin_interp
\* ========================================================================

\* C12: whenever bin_interp returns (count, threshold), on the early-return
\* paths as well as after the loop, |count - threshold - Margin| <= tol for
\* the tolerance in force at return.
BinReturnMeetsMargin ==
    bin_pc = "done" => AbsDiffCmpTol(bin_ret, Margin, tol) <= 0

\* an iteration past number IterRelax leaves the tolerance 10% larger, an
\* earlier one leaves it as it was
TolGrowsAfterIterRelax ==
    (bin_pc = "body" /\ bin_pc' = "loop") =>
        /\ tol'.num = tol.num
        /\ tol'.relax = (IF iterno < IterRelax \/ tol.num = 0
                         THEN tol.relax ELSE tol.relax + 1)

\* C13 as stated: the loop terminates for every bracket, margin and
\* tolerance; after iteration IterRelax the tolerance grows by 10% per
\* iteration until the exit test holds.
BinLoopTerminates ==
    /\ [][TolGrowsAfterIterRelax]_vars
    /\ (bin_pc = "loop") ~> (bin_pc = "done")

\* C13 amended: the same for every tolerance other than 0.
BinLoopTerminatesNonzeroTol ==
    /\ [][TolGrowsAfterIterRelax]_vars
    /\ (bin_pc = "loop" /\ tol.num # 0) ~> (bin_pc = "done")

\* a call that left the loop only after the tolerance was relaxed
BinExitAfterRelax ==
    /\ bin_pc = "done"
    /\ tol.num # 0
    /\ tol.relax > 0
    /\ bin_ret = Mid
    /\ iterno > IterRelax

====
